---- MODULE Spec2Model ----
(***************************************************************************)
(* Model of the insurance question-answering service:                      *)
(*   utils/llm_reasoner.py  extract_amount_from_clauses, get_decision      *)
(*   utils/loader.py        load_and_chunk                                 *)
(*   utils/embedder.py      cached singletons, store_chunks_qdrant         *)
(*   main.py                startup_warmup, hackrx_run                     *)
(* Texts are sequences of one-character strings, so that the regular       *)
(* expression, re.sub and float() are computed character by character.     *)
(***************************************************************************)
EXTENDS Integers, Sequences, FiniteSets, TLC

VARIABLES
    retrieved_docs,   \* llm_reasoner: the page_content of the documents search() returned
    llm,              \* llm_reasoner: what the search and the LLM call do for this query
    ea_out,           \* outcome of extract_amount_from_clauses(retrieved_docs)
    gd_out,           \* outcome of get_decision(query)
    lc_in,            \* loader: the file load_and_chunk is called on
    lc_out,           \* outcome of load_and_chunk(file_path)
    API_KEY,                      \* main.py: os.getenv("API_KEY")
    req,                          \* the hackrx_run calls: position, locals, response
    running,                      \* the call that holds the event-loop thread, 0 if none
    warm,                         \* the warm-up task's worker thread
    embeddings_instance,          \* embedder._embeddings_instance, 0 is None
    qdrant_client_instance,       \* embedder._qdrant_client_instance, 0 is None
    qdrant_vectorstore_instance,  \* embedder._qdrant_vectorstore_instance, 0 is None
    built,                        \* how many instances of each singleton were constructed
    collection                    \* the remote collection "insurance_docs"

amountVars == <<retrieved_docs, llm, ea_out, gd_out>>

loaderVars == <<lc_in, lc_out>>

singletonVars == <<embeddings_instance, qdrant_client_instance,
                   qdrant_vectorstore_instance, built>>

serviceVars == <<API_KEY, req, running, warm, singletonVars, collection>>

vars == <<amountVars, loaderVars, serviceVars>>

----------------------------------------------------------------------------
(* Bounds *)

MaxDocs == 2          \* number of retrieved documents (top_k caps it in the code)

MaxPages == 2         \* pages of a PDF file

MaxPieces == 2        \* chunks the splitter cuts one page, or one DOCX text, into

MaxParagraphs == 2    \* paragraphs of a DOCX file

MaxRequests == 2      \* calls of hackrx_run

MaxQuestions == 2     \* questions of one request

MaxChunks == 2        \* chunks of a downloaded document

----------------------------------------------------------------------------
(* Characters and texts *)

RUPEE == "RUPEE"      \* the single character U+20B9

Digits == {"0", "1", "2", "3", "4", "5", "6", "7", "8", "9"}

IsDigit(c) == c \in Digits                      \* \d

IsSpace(c) == c \in {" ", "\n", "\t"}           \* \s

DigitVal(c) ==
    CASE c = "0" -> 0 [] c = "1" -> 1 [] c = "2" -> 2 [] c = "3" -> 3
      [] c = "4" -> 4 [] c = "5" -> 5 [] c = "6" -> 6 [] c = "7" -> 7
      [] c = "8" -> 8 [] c = "9" -> 9

SeqsUpTo(S, n) == UNION {[1..k -> S] : k \in 0..n}

\* A Python float got from a decimal literal: num / 10^scale, trailing zeros dropped.
RECURSIVE Canon(_, _)
Canon(num, scale) ==
    IF scale > 0 /\ num % 10 = 0 THEN Canon(num \div 10, scale - 1)
    ELSE [some |-> TRUE, num |-> num, scale |-> scale]

None == [some |-> FALSE, num |-> 0, scale |-> 0]

RECURSIVE DigitsToNat(_)
DigitsToNat(s) ==
    IF s = <<>> THEN 0
    ELSE 10 * DigitsToNat(SubSeq(s, 1, Len(s) - 1)) + DigitVal(s[Len(s)])

\* float(cleaned) for a string of digits and dots: ValueError unless it holds
\* at least one digit and at most one dot.
PyFloat(s) ==
    LET dots   == {i \in 1..Len(s) : s[i] = "."}
        digits == SelectSeq(s, IsDigit)
    IN  IF Cardinality(dots) > 1 \/ digits = <<>> \/ Len(digits) + Cardinality(dots) # Len(s)
        THEN [ok |-> FALSE, val |-> None]
        ELSE LET scale == IF dots = {} THEN 0 ELSE Len(s) - (CHOOSE i \in dots : TRUE)
             IN  [ok |-> TRUE, val |-> Canon(DigitsToNat(digits), scale)]

----------------------------------------------------------------------------
(* The currency pattern  (?:INR|Rs\.?|RUPEE)\s?[\d,]+(?:\.\d+)?  *)

At(t, i) == IF i >= 1 /\ i <= Len(t) THEN t[i] ELSE ""

\* Length of (?:INR|Rs\.?|RUPEE) at position i, 0 when it does not match.
CurrencyLen(t, i) ==
    IF At(t, i) = "I" /\ At(t, i + 1) = "N" /\ At(t, i + 2) = "R" THEN 3
    ELSE IF At(t, i) = "R" /\ At(t, i + 1) = "s"
         THEN (IF At(t, i + 2) = "." THEN 3 ELSE 2)
    ELSE IF At(t, i) = RUPEE THEN 1
    ELSE 0

\* First position at or after i whose character is not in S (Len(t)+1 if none).
RunEnd(t, i, S) ==
    CHOOSE k \in i..(Len(t) + 1) :
        /\ \A m \in i..(k - 1) : t[m] \in S
        /\ (k = Len(t) + 1 \/ t[k] \notin S)

\* The match of the pattern that starts at i: [found, from, to) .  The
\* quantifiers are greedy and giving one back never lets the rest match.
MatchAt(t, i) ==
    LET c  == CurrencyLen(t, i)
        j  == i + c
        j2 == IF IsSpace(At(t, j)) THEN j + 1 ELSE j
        k  == RunEnd(t, j2, Digits \cup {","})
        e  == IF At(t, k) = "." /\ IsDigit(At(t, k + 1))
              THEN RunEnd(t, k + 1, Digits) ELSE k
    IN  IF c = 0 \/ k = j2 THEN [found |-> FALSE, from |-> 0, to |-> 0, num |-> 0]
        ELSE [found |-> TRUE, from |-> i, to |-> e, num |-> j2]

\* re.search(pattern, text): the leftmost match.
ReSearch(t) ==
    LET starts == {i \in 1..Len(t) : MatchAt(t, i).found}
    IN  IF starts = {} THEN [found |-> FALSE, from |-> 0, to |-> 0, num |-> 0]
        ELSE MatchAt(t, CHOOSE i \in starts : \A j \in starts : i <= j)

KeepDigitOrDot(c) == IsDigit(c) \/ c = "."

\* re.sub(r'[^\d.]', '', num_str)
Cleaned(num_str) == SelectSeq(num_str, KeepDigitOrDot)

\* for doc in retrieved_docs: first match per document, float() of the cleaned
\* match, a ValueError moves on to the next document.
RECURSIVE ExtractFrom(_, _)
ExtractFrom(docs, i) ==
    IF i > Len(docs) THEN None
    ELSE LET m == ReSearch(docs[i])
         IN  IF ~m.found THEN ExtractFrom(docs, i + 1)
             ELSE LET f == PyFloat(Cleaned(SubSeq(docs[i], m.from, m.to - 1)))
                  IN  IF f.ok THEN f.val ELSE ExtractFrom(docs, i + 1)

extract_amount_from_clauses(docs) == ExtractFrom(docs, 1)

----------------------------------------------------------------------------
(* Retrieved texts *)

INR == <<"I", "N", "R">>

RS == <<"R", "s">>

RSDOT == <<"R", "s", ".">>

CurrencyPrefixes == {INR, RS, RSDOT, <<RUPEE>>}

Gaps == {<<>>, <<" ">>}

NumberTails == {<<"5">>, <<"5", ",", "0", "0", "0">>, <<"7", ".", "5">>, <<",">>}

\* "up to Rs. 5,000 per day"
RoomRent == <<"u", "p", " ", "t", "o", " ", "R", "s", ".", " ",
              "5", ",", "0", "0", "0", " ", "p", "e", "r", " ", "d", "a", "y">>

OtherTexts ==
    { <<>>,
      <<"n", "o">>,
      RoomRent,
      <<"5", ",", "0", "0", "0">>,
      <<"R", "s">>,
      <<RUPEE, ",", " ", RUPEE, "5">>,
      <<"I", "N", "R", "\n", "7", " ", RUPEE, "9">> }

Texts == {p \o g \o n : p \in CurrencyPrefixes, g \in Gaps, n \in NumberTails}
         \cup OtherTexts

DecisionTexts == {<<"n", "o">>, <<RUPEE, "5">>, RoomRent}

----------------------------------------------------------------------------
(* JSON values and the LLM's output *)

JNull == [t |-> "null", s |-> "", num |-> 0, scale |-> 0]

JNum(n, sc) == [t |-> "number", s |-> "", num |-> n, scale |-> sc]

JStr(x) == [t |-> "string", s |-> x, num |-> 0, scale |-> 0]

JArr(x) == [t |-> "array", s |-> x, num |-> 0, scale |-> 0]

EmptyObj == [k \in {} |-> JNull]

Obj(f) == [type |-> "object", fields |-> f]

NonObj(ty) == [type |-> ty, fields |-> EmptyObj]

\* The JSON documents the LLM may write, by name; anything else is not JSON.
JsonDocNames ==
    {"D_FULL", "D_AMOUNT_NULL", "D_AMOUNT_ABSENT", "D_AMOUNT_ZERO", "D_AMOUNT_STRING",
     "D_EMPTY_OBJECT", "D_LIST", "D_NUMBER", "D_NULL", "D_STRING"}

JsonDoc(name) ==
    CASE name = "D_FULL" ->
            Obj([k \in {"decision", "amount", "justification"} |->
                    IF k = "decision" THEN JStr("approved")
                    ELSE IF k = "amount" THEN JNum(12000, 0) ELSE JArr("clauses")])
      [] name = "D_AMOUNT_NULL" ->
            Obj([k \in {"decision", "amount", "justification"} |->
                    IF k = "decision" THEN JStr("approved")
                    ELSE IF k = "amount" THEN JNull ELSE JArr("clauses")])
      [] name = "D_AMOUNT_ABSENT" ->
            Obj([k \in {"decision", "justification"} |->
                    IF k = "decision" THEN JStr("rejected") ELSE JArr("clauses")])
      [] name = "D_AMOUNT_ZERO" ->
            Obj([k \in {"decision", "amount"} |->
                    IF k = "decision" THEN JStr("rejected") ELSE JNum(0, 0)])
      [] name = "D_AMOUNT_STRING" ->
            Obj([k \in {"amount"} |-> JStr("5000")])
      [] name = "D_EMPTY_OBJECT" -> Obj(EmptyObj)
      [] name = "D_LIST" -> NonObj("array")
      [] name = "D_NUMBER" -> NonObj("number")
      [] name = "D_NULL" -> NonObj("null")
      [] name = "D_STRING" -> NonObj("string")

FENCE == "FENCE"     \* the three backquotes of a Markdown code fence

WsTokens == {" ", "\n"}

\* s.strip(chars): leading and trailing tokens of S removed.
Strip(s, S) ==
    LET keep == {i \in 1..Len(s) : s[i] \notin S}
    IN  IF keep = {} THEN <<>>
        ELSE SubSeq(s, CHOOSE i \in keep : \A j \in keep : i <= j,
                       CHOOSE i \in keep : \A j \in keep : i >= j)

StartsWithToken(s, tok) == Len(s) >= 1 /\ s[1] = tok

\* json.loads(raw_output): surrounding whitespace is allowed, anything but one
\* JSON document is a JSONDecodeError.
JsonLoads(raw) ==
    LET body == Strip(raw, WsTokens)
    IN  IF Len(body) = 1 /\ body[1] \in JsonDocNames
        THEN [ok |-> TRUE, value |-> JsonDoc(body[1])]
        ELSE [ok |-> FALSE, value |-> NonObj("null")]

\* response.text.strip(), then the code-fence clean-up of lines 115-118.
CleanOutput(text) ==
    LET raw0 == Strip(text, WsTokens)
    IN  IF StartsWithToken(raw0, FENCE)
        THEN LET raw1 == Strip(raw0, WsTokens \cup {FENCE})
             IN  IF StartsWithToken(raw1, "json")
                 THEN Strip(Tail(raw1), WsTokens)
                 ELSE raw1
        ELSE raw0

Payloads == JsonDocNames \cup {"PROSE"}

LLMTexts ==
    {<<>>}
    \cup {<<p>> : p \in Payloads}
    \cup {<<FENCE, "json", "\n", p, "\n", FENCE>> : p \in Payloads}
    \cup {<<FENCE, "\n", p, "\n", FENCE, "\n">> : p \in Payloads}
    \cup {<<"json", "\n", p>> : p \in Payloads}
    \cup {<<p, "\n", "PROSE">> : p \in Payloads}

\* fails: which call of get_decision raises ("search", "llm") or "none".
LLMBehaviours ==
    {[fails |-> "none", text |-> t] : t \in LLMTexts}
    \cup {[fails |-> f, text |-> <<>>] : f \in {"search", "llm"}}

NoLLM == [fails |-> "none", text |-> <<>>]

----------------------------------------------------------------------------
(* get_decision *)

DictGet(d, k) == IF k \in DOMAIN d THEN d[k] ELSE JNull      \* d.get(k)

DictSet(d, k, v) == [x \in DOMAIN d \cup {k} |-> IF x = k THEN v ELSE d[x]]

FromAmount(a) == IF a.some THEN JNum(a.num, a.scale) ELSE JNull

\* Python truthiness of a JSON value decoded by json.loads.
Falsy(v) ==
    \/ v.t = "null"
    \/ (v.t = "number" /\ v.num = 0)
    \/ (v.t = "string" /\ v.s = "")

\* A faulty variant: it tests the amount for truthiness instead of "is None".
AmountFallbackWhenFalsy(result, docs) ==
    IF Falsy(DictGet(result, "amount"))
    THEN DictSet(result, "amount", FromAmount(extract_amount_from_clauses(docs)))
    ELSE result

AmountFallback(result, docs) ==
    IF DictGet(result, "amount") = JNull
    THEN DictSet(result, "amount", FromAmount(extract_amount_from_clauses(docs)))
    ELSE result

Raised(e) == [status |-> "raised", exc |-> e, result |-> EmptyObj]

Returned(r) == [status |-> "returned", exc |-> "", result |-> r]

Pending == [status |-> "pending", exc |-> "", result |-> EmptyObj]

NotExtracted == [done |-> FALSE, value |-> None]

get_decision(docs, l) ==
    IF l.fails = "search" THEN Raised("SearchError")
    ELSE IF l.fails = "llm" THEN Raised("LLMError")
    ELSE LET parsed == JsonLoads(CleanOutput(l.text))
         IN  IF ~parsed.ok THEN Returned(EmptyObj)
             ELSE IF parsed.value.type # "object" THEN Raised("AttributeError")
             ELSE Returned(AmountFallback(parsed.value.fields, docs))

----------------------------------------------------------------------------
(* utils/loader.py: load_and_chunk *)

\* A value of chunk.metadata["page"] as the PDF loader left it.
PInt(n) == [kind |-> "int", n |-> n, chars |-> <<>>]

PStr(cs) == [kind |-> "str", n |-> 0, chars |-> cs]

PFloat(tenths) == [kind |-> "float", n |-> tenths, chars |-> <<>>]   \* tenths / 10

PNone == [kind |-> "none", n |-> 0, chars |-> <<>>]

PMissing == [kind |-> "missing", n |-> 0, chars |-> <<>>]            \* no "page" key

PageValues ==
    {PInt(n) : n \in {-1, 0, 1}}
    \cup {PStr(cs) : cs \in {<<"2">>, <<"?">>, <<"-", "1">>, <<" ", "3", " ">>, <<>>}}
    \cup {PFloat(15), PNone, PMissing}

\* chunk.metadata.get("page", "?")
MetadataGetPage(v) == IF v.kind = "missing" THEN PStr(<<"?">>) ELSE v

\* int(x): an int is kept, a float is truncated toward zero, a string is parsed
\* (surrounding whitespace, an optional sign, then digits), None is a TypeError.
PyInt(v) ==
    CASE v.kind = "int" -> [ok |-> TRUE, n |-> v.n]
      [] v.kind = "float" ->
            [ok |-> TRUE, n |-> IF v.n >= 0 THEN v.n \div 10 ELSE -((-v.n) \div 10)]
      [] v.kind = "str" ->
            LET body   == Strip(v.chars, {" ", "\n", "\t"})
                signed == Len(body) >= 1 /\ body[1] \in {"+", "-"}
                digs   == IF signed THEN Tail(body) ELSE body
            IN  IF digs # <<>> /\ \A i \in 1..Len(digs) : IsDigit(digs[i])
                THEN [ok |-> TRUE,
                      n  |-> IF signed /\ body[1] = "-"
                             THEN -DigitsToNat(digs) ELSE DigitsToNat(digs)]
                ELSE [ok |-> FALSE, n |-> 0]
      [] OTHER -> [ok |-> FALSE, n |-> 0]

\* A faulty variant: it leaves page_number as it was when int() raises.
PageNumberKeptOnError(v) ==
    LET got == MetadataGetPage(v)
        r   == PyInt(got)
    IN  IF r.ok THEN PInt(r.n) ELSE got

\* Lines 24-28: page_number = int(...), None when int() raises.
PageNumber(v) ==
    LET r == PyInt(MetadataGetPage(v))
    IN  IF r.ok THEN PInt(r.n) ELSE PNone

FileName == "policy"

\* splitter.split_documents(docs): every piece of a page keeps the page's metadata.
RECURSIVE SplitDocuments(_, _)
SplitDocuments(docs, i) ==
    IF i > Len(docs) THEN <<>>
    ELSE [j \in 1..docs[i].pieces |->
             [text |-> <<i, j>>, source |-> "loader", page |-> docs[i].page]]
         \o SplitDocuments(docs, i + 1)

\* ext = os.path.splitext(file_path)[1].lower()
Lower(ext) == IF ext = ".PDF" THEN ".pdf" ELSE IF ext = ".Docx" THEN ".docx" ELSE ext

Extensions == {".pdf", ".PDF", ".docx", ".Docx", ".txt", ""}

Loaded(cs) == [status |-> "returned", exc |-> "", chunks |-> cs]

LoadFailed(e) == [status |-> "raised", exc |-> e, chunks |-> <<>>]

NotLoaded == [status |-> "pending", exc |-> "", chunks |-> <<>>]

\* Lines 42-48: page = i + 1 for i, chunk in enumerate(text_chunks).
DocxChunks(n) ==
    [i \in 1..n |-> [text |-> <<0, i>>, source |-> FileName, page |-> PInt(i)]]

PdfChunks(docs) ==
    LET split == SplitDocuments(docs, 1)
    IN  [i \in 1..Len(split) |->
            [text |-> split[i].text, source |-> FileName,
             page |-> PageNumber(split[i].page)]]

\* f.ext: the extension; f.corrupt: the parser of the format raises;
\* f.pages: the PDF's pages; f.paragraphs, f.pieces: the DOCX's paragraphs and
\* the number of chunks the splitter makes of a non-empty text.
load_and_chunk(f) ==
    LET ext == Lower(f.ext)
    IN  IF ext = ".pdf"
        THEN IF f.corrupt THEN LoadFailed("ParseError") ELSE Loaded(PdfChunks(f.pages))
        ELSE IF ext = ".docx"
        THEN IF f.corrupt THEN LoadFailed("ParseError")
             ELSE LET kept == SelectSeq(f.paragraphs, LAMBDA p : p = "text")
                  IN  Loaded(DocxChunks(IF kept = <<>> THEN 0 ELSE f.pieces))
        ELSE LoadFailed("ValueError")

NoFile == [ext |-> "", corrupt |-> FALSE, pages |-> <<>>, paragraphs |-> <<>>, pieces |-> 1]

PdfFiles ==
    {[ext |-> e, corrupt |-> FALSE, pages |-> ps, paragraphs |-> <<>>, pieces |-> 1] :
        e \in {".pdf"},
        ps \in SeqsUpTo([page : PageValues, pieces : 0..MaxPieces], MaxPages)}

DocxFiles ==
    {[ext |-> e, corrupt |-> FALSE, pages |-> <<>>, paragraphs |-> ps, pieces |-> n] :
        e \in {".docx", ".Docx"},
        ps \in SeqsUpTo({"text", "blank"}, MaxParagraphs),
        n \in 1..(MaxPieces + 1)}

OtherFiles ==
    {[ext |-> e, corrupt |-> c, pages |-> <<>>, paragraphs |-> <<>>, pieces |-> 1] :
        e \in Extensions, c \in BOOLEAN}

----------------------------------------------------------------------------
(* main.py: the bearer-token check of hackrx_run *)

BEARER == <<"B", "e", "a", "r", "e", "r", " ">>

KeyOne == <<"k", "1">>

KeyTwo == <<"k", "2">>

\* The Authorization header: absent (None), or a string.
NoHeader == [present |-> FALSE, chars |-> <<>>]

Header(cs) == [present |-> TRUE, chars |-> cs]

Headers ==
    {NoHeader}
    \cup {Header(cs) : cs \in
            {<<>>, BEARER \o KeyOne, BEARER \o KeyTwo, KeyOne,
             <<"b", "e", "a", "r", "e", "r", " ">> \o KeyOne}}

\* os.getenv("API_KEY"): None when the variable is not set.
ApiKeys == {[set |-> FALSE, chars |-> <<>>], [set |-> TRUE, chars |-> KeyOne]}

StartsWith(s, prefix) ==
    Len(s) >= Len(prefix) /\ SubSeq(s, 1, Len(prefix)) = prefix

\* authorization[7:] != API_KEY
TokenDiffers(h, key) == ~key.set \/ SubSeq(h.chars, 8, Len(h.chars)) # key.chars

\* A faulty variant: it compares the token without looking at the scheme.
AuthRejectedIgnoringScheme(h, key) ==
    \/ ~h.present
    \/ h.chars = <<>>
    \/ TokenDiffers(h, key)

\* Line 69: not authorization or not authorization.startswith("Bearer ")
\*          or authorization[7:] != API_KEY
AuthRejected(h, key) ==
    \/ ~h.present
    \/ h.chars = <<>>
    \/ ~StartsWith(h.chars, BEARER)
    \/ TokenDiffers(h, key)

----------------------------------------------------------------------------
(* main.py: hackrx_run, one record per call *)

Requests == 1..MaxRequests

\* url_path extensions of payload.documents
UrlExtensions == {"", ".docx", ".txt"}

Payloads4Run == [documents : UrlExtensions, questions : 0..MaxQuestions]

NewReq ==
    [pc |-> "new", authorization |-> NoHeader,
     documents |-> "", questions |-> 0,
     tmp |-> "none", tmp_path |-> FALSE, nchunks |-> 0, qi |-> 0,
     answers |-> <<>>, status |-> 0, exc |-> "", stage |-> "", did |-> {}]

\* httpx.RequestError and its subclasses (transport errors, timeouts);
\* httpx.HTTPStatusError, which raise_for_status() raises, is not one of them.
IsRequestError(e) == e \in {"ConnectError", "ReadTimeout"}

\* Lines 123-128: except httpx.RequestError -> 400, except Exception -> 500.
HandlerStatus(e) == IF IsRequestError(e) THEN 400 ELSE 500

\* Lines 129-135: os.remove(tmp_path) when tmp_path is a bound local.
TmpAfterFinally(rec) == IF rec.tmp_path THEN "removed" ELSE rec.tmp

\* An exception e raised at `stage` leaves through the except clauses and
\* finally; the response is the status, the locals are gone.
Failed(rec, e, stage) ==
    [rec EXCEPT !.pc = "done", !.status = HandlerStatus(e), !.exc = e,
                !.stage = stage, !.tmp = TmpAfterFinally(rec),
                !.tmp_path = FALSE, !.nchunks = 0, !.qi = 0,
                !.documents = "", !.questions = 0, !.answers = <<>>]

\* return {"answers": answers}, then finally.
Succeeded(rec) ==
    [rec EXCEPT !.pc = "done", !.status = 200, !.tmp = TmpAfterFinally(rec),
                !.tmp_path = FALSE, !.nchunks = 0, !.qi = 0, !.documents = ""]

Arrived == {r \in Requests : req[r].pc # "new"}

\* The call r leaves the event-loop thread with record rec.
Leave(r, rec) == req' = [req EXCEPT ![r] = rec] /\ running' = 0

\* The call r goes on to position pc, keeping the event-loop thread.
Goto(r, pc, step) ==
    req' = [req EXCEPT ![r].pc = pc, ![r].did = @ \cup step]

\* The handler is entered: the auth check, then the download is awaited.
\* The download is the coroutine's only await: after it the call keeps the
\* event-loop thread until it leaves, and before it the call has touched nothing
\* that is shared, so its entry commutes with every step of another call.  Calls
\* are therefore admitted one after the other, in the order of their numbers.
HackrxRun(r, h, p) ==
    /\ running = 0
    /\ req[r].pc = "new"
    /\ r = Cardinality(Arrived) + 1
    /\ \A o \in Requests : req[o].pc \in {"new", "closed"}
    /\ LET rec == [req[r] EXCEPT !.authorization = h,
                                 !.documents = p.documents,
                                 !.questions = p.questions]
       IN  IF AuthRejected(h, API_KEY)
           THEN req' = [req EXCEPT ![r] = [req[r] EXCEPT !.authorization = h,
                                                         !.pc = "done", !.status = 401,
                                                         !.exc = "HTTPException",
                                                         !.stage = "auth"]]
           ELSE req' = [req EXCEPT ![r] = [rec EXCEPT !.pc = "download"]]
    /\ UNCHANGED <<API_KEY, running, warm, singletonVars, collection,
                   amountVars, loaderVars>>

DownloadOutcomes == {"ok", "ConnectError", "ReadTimeout", "HTTPStatusError"}

\* Lines 74-77: client.get returns or raises, raise_for_status(), resp.content.
Download(r, outcome) ==
    /\ running = 0
    /\ req[r].pc = "download"
    /\ LET rec == [req[r] EXCEPT !.did = @ \cup {"download"}]
       IN  IF outcome = "ok"
           THEN req' = [req EXCEPT ![r] = [rec EXCEPT !.pc = "tmpfile"]] /\ running' = r
           ELSE Leave(r, Failed(rec, outcome, "download"))
    /\ UNCHANGED <<API_KEY, warm, singletonVars, collection, amountVars, loaderVars>>

\* suffix = os.path.splitext(url_path)[1] or ".pdf"
Suffix(url_ext) == IF url_ext = "" THEN ".pdf" ELSE url_ext

TempOutcomes == {"ok", "create_fails", "write_fails"}

\* Lines 82-84: the file is created (delete=False), written, and only then is
\* tmp_path bound.
WriteTemp(r, outcome) ==
    /\ running = r
    /\ req[r].pc = "tmpfile"
    /\ LET rec == [req[r] EXCEPT !.did = @ \cup {"tmpfile"}]
       IN  CASE outcome = "create_fails" ->
                    Leave(r, Failed(rec, "OSError", "tmpfile"))
             [] outcome = "write_fails" ->
                    Leave(r, Failed([rec EXCEPT !.tmp = "exists"], "OSError", "tmpfile"))
             [] outcome = "ok" ->
                    /\ req' = [req EXCEPT ![r] = [rec EXCEPT !.tmp = "exists",
                                                             !.tmp_path = TRUE,
                                                             !.pc = "chunk"]]
                    /\ UNCHANGED running
    /\ UNCHANGED <<API_KEY, warm, singletonVars, collection, amountVars, loaderVars>>

\* The files a download can leave under a suffix: a PDF of k one-chunk pages
\* (0-based page numbers, as the PDF loader gives them), a DOCX, unreadable bytes.
DownloadedFiles(suffix) ==
    {[ext |-> suffix, corrupt |-> FALSE,
      pages |-> [i \in 1..k |-> [page |-> PInt(i - 1), pieces |-> 1]],
      paragraphs |-> [i \in 1..k |-> "text"], pieces |-> IF k = 0 THEN 1 ELSE k] :
        k \in 0..MaxChunks}
    \cup {[ext |-> suffix, corrupt |-> TRUE, pages |-> <<>>, paragraphs |-> <<>>,
           pieces |-> 1]}

\* Line 90: chunks = load_and_chunk(tmp_path)
ChunkDocument(r, f) ==
    /\ running = r
    /\ req[r].pc = "chunk"
    /\ LET rec == [req[r] EXCEPT !.did = @ \cup {"chunk"}]
           out == load_and_chunk(f)
       IN  IF out.status = "raised"
           THEN Leave(r, Failed(rec, out.exc, "chunk"))
           ELSE /\ req' = [req EXCEPT ![r] = [rec EXCEPT !.nchunks = Len(out.chunks),
                                                         !.pc = "store"]]
                /\ UNCHANGED running
    /\ UNCHANGED <<API_KEY, warm, singletonVars, collection, amountVars, loaderVars>>

----------------------------------------------------------------------------
(* utils/embedder.py: the cached singletons and store_chunks_qdrant *)

NoneBuilt == [emb |-> 0, client |-> 0, vs |-> 0]

\* A faulty variant: it only rejects a missing list, so an empty one goes on.
ChunksRejectedOnlyIfMissing(n) == n < 0

\* Line 62: if not chunks
ChunksRejected(n) == n = 0

\* Lines 62-63: store_chunks_qdrant(chunks) is entered.
StoreChunksEnter(r) ==
    /\ running = r
    /\ req[r].pc = "store"
    /\ LET rec == [req[r] EXCEPT !.did = @ \cup {"store"}]
       IN  IF ChunksRejected(rec.nchunks)
           THEN Leave(r, Failed(rec, "ValueError: Chunks list is empty.", "store"))
           ELSE /\ req' = [req EXCEPT ![r] = [rec EXCEPT !.pc = "get_embeddings"]]
                /\ UNCHANGED running
    /\ UNCHANGED <<API_KEY, warm, singletonVars, collection, amountVars, loaderVars>>

\* Lines 22 and 27 of get_embeddings on the event-loop thread: the test, and the
\* return of a cached instance.
ReqGetEmbeddings(r) ==
    /\ running = r
    /\ req[r].pc = "get_embeddings"
    /\ Goto(r, IF embeddings_instance = 0 THEN "build_embeddings" ELSE "get_client", {})
    /\ UNCHANGED <<API_KEY, running, warm, singletonVars, collection,
                   amountVars, loaderVars>>

\* Line 26 on the event-loop thread: the model is loaded and assigned.
ReqBuildEmbeddings(r, ok) ==
    /\ running = r
    /\ req[r].pc = "build_embeddings"
    /\ IF ok
       THEN /\ built' = [built EXCEPT !.emb = @ + 1]
            /\ embeddings_instance' = built.emb + 1
            /\ Goto(r, "get_client", {})
            /\ UNCHANGED running
       ELSE /\ Leave(r, Failed(req[r], "EmbeddingsLoadError", "store"))
            /\ UNCHANGED <<built, embeddings_instance>>
    /\ UNCHANGED <<API_KEY, warm, qdrant_client_instance, qdrant_vectorstore_instance,
                   collection, amountVars, loaderVars>>

\* Lines 30-40: get_qdrant_client().
ReqGetClient(r, ok) ==
    /\ running = r
    /\ req[r].pc = "get_client"
    /\ IF qdrant_client_instance # 0
       THEN /\ ok
            /\ Goto(r, "get_vectorstore", {})
            /\ UNCHANGED <<running, built, qdrant_client_instance>>
       ELSE IF ok
       THEN /\ built' = [built EXCEPT !.client = @ + 1]
            /\ qdrant_client_instance' = built.client + 1
            /\ Goto(r, "get_vectorstore", {})
            /\ UNCHANGED running
       ELSE /\ Leave(r, Failed(req[r], "ClientError", "store"))
            /\ UNCHANGED <<built, qdrant_client_instance>>
    /\ UNCHANGED <<API_KEY, warm, embeddings_instance, qdrant_vectorstore_instance,
                   collection, amountVars, loaderVars>>

\* Lines 43-54: get_qdrant_vectorstore(); a new wrapper is made of
\* get_qdrant_client() and get_embeddings(), both cached by now.
GetVectorstore ==
    IF qdrant_vectorstore_instance # 0
    THEN UNCHANGED <<built, qdrant_vectorstore_instance>>
    ELSE /\ built' = [built EXCEPT !.vs = @ + 1]
         /\ qdrant_vectorstore_instance' = built.vs + 1

\* Line 69: vectorstore = get_qdrant_vectorstore()
ReqGetVectorstore(r) ==
    /\ running = r
    /\ req[r].pc = "get_vectorstore"
    /\ GetVectorstore
    /\ Goto(r, "collections", {})
    /\ UNCHANGED <<API_KEY, running, warm, embeddings_instance, qdrant_client_instance,
                   collection, amountVars, loaderVars>>

\* Lines 77-92: the collections are listed (a failure reads as "none"), and the
\* collection is created when its name is not in the list.
EnsureCollection(r, list_ok, create_ok) ==
    /\ running = r
    /\ req[r].pc = "collections"
    /\ LET listed == list_ok /\ collection.exists
       IN  IF listed
           THEN /\ create_ok
                /\ Goto(r, "add_texts", {})
                /\ UNCHANGED <<running, collection>>
           ELSE IF collection.exists
           THEN /\ create_ok
                /\ Leave(r, Failed(req[r], "UnexpectedResponse", "store"))
                /\ UNCHANGED collection
           ELSE IF create_ok
           THEN /\ collection' = [collection EXCEPT !.exists = TRUE]
                /\ Goto(r, "add_texts", {})
                /\ UNCHANGED running
           ELSE /\ Leave(r, Failed(req[r], "ResponseHandlingException", "store"))
                /\ UNCHANGED collection
    /\ UNCHANGED <<API_KEY, warm, singletonVars, amountVars, loaderVars>>

\* The entries an upsert of the first k chunks of call r appends.
NewPoints(r, k) == [i \in 1..k |-> <<r, i>>]

\* Line 97: vectorstore.add_texts embeds the texts and upserts them batch by
\* batch over the network. It returns when all of them are stored; when it
\* raises, the first k texts (any number of batches, a batch being one text
\* here) are already stored. Line 98 catches every exception.
AddTexts(r, ok, k) ==
    /\ running = r
    /\ req[r].pc = "add_texts"
    /\ k \in 0..req[r].nchunks
    /\ ok => k = req[r].nchunks
    /\ collection' = [collection EXCEPT !.points = @ \o NewPoints(r, k)]
    /\ Goto(r, IF ok THEN "load_qdrant" ELSE "from_texts", {"upsert"})
    /\ UNCHANGED <<API_KEY, running, warm, singletonVars, amountVars, loaderVars>>

\* Lines 98-108: the fallback Qdrant.from_texts upserts all the texts again,
\* under new ids and through a client of its own, or raises after the first k.
FromTexts(r, ok, k) ==
    /\ running = r
    /\ req[r].pc = "from_texts"
    /\ k \in 0..req[r].nchunks
    /\ ok => k = req[r].nchunks
    /\ collection' = [collection EXCEPT !.points = @ \o NewPoints(r, k)]
    /\ IF ok
       THEN Goto(r, "load_qdrant", {}) /\ UNCHANGED running
       ELSE Leave(r, Failed(req[r], "ResponseHandlingException", "store"))
    /\ UNCHANGED <<API_KEY, warm, singletonVars, amountVars, loaderVars>>

\* Lines 98 and 102 of main.py: db = load_qdrant(), model = get_gemini_model().
LoadQdrant(r) ==
    /\ running = r
    /\ req[r].pc = "load_qdrant"
    /\ GetVectorstore
    /\ Goto(r, "answer", {})
    /\ UNCHANGED <<API_KEY, running, warm, embeddings_instance, qdrant_client_instance,
                   collection, amountVars, loaderVars>>

\* A faulty variant: it drops the entry of a question whose LLM call raises.
AnswersWithoutFailures(answers, q, llm_ok) ==
    IF llm_ok THEN Append(answers, [question |-> q, ok |-> TRUE]) ELSE answers

\* Lines 114-118: the answer, or the error text, is appended.
AnswersAfter(answers, q, llm_ok) == Append(answers, [question |-> q, ok |-> llm_ok])

\* Lines 105-118: one iteration of the loop over payload.questions.
AnswerQuestion(r, search_ok, llm_ok) ==
    /\ running = r
    /\ req[r].pc = "answer"
    /\ req[r].qi < req[r].questions
    /\ IF search_ok
       THEN /\ req' = [req EXCEPT ![r].qi = @ + 1,
                                  ![r].did = @ \cup {"search", "llm"},
                                  ![r].answers = AnswersAfter(@, req[r].qi + 1, llm_ok)]
            /\ UNCHANGED running
       ELSE /\ llm_ok
            /\ Leave(r, Failed([req[r] EXCEPT !.did = @ \cup {"search"}],
                               "SearchError", "search"))
    /\ UNCHANGED <<API_KEY, warm, singletonVars, collection, amountVars, loaderVars>>

\* Line 121: return {"answers": answers}
Return(r) ==
    /\ running = r
    /\ req[r].pc = "answer"
    /\ req[r].qi = req[r].questions
    /\ Leave(r, Succeeded(req[r]))
    /\ UNCHANGED <<API_KEY, warm, singletonVars, collection, amountVars, loaderVars>>

\* The response has been sent: the call's record is dropped.
ClosedReq == [NewReq EXCEPT !.pc = "closed"]

Close(r) ==
    /\ req[r].pc = "done"
    /\ req' = [req EXCEPT ![r] = ClosedReq]
    /\ UNCHANGED <<API_KEY, running, warm, singletonVars, collection,
                   amountVars, loaderVars>>

----------------------------------------------------------------------------
(* main.py: the warm-up task, embedder.get_embeddings().embed_query on a worker thread *)

\* Line 22 on the worker thread; with a cached instance, embed_query("warmup")
\* follows, and its failure is logged.
WarmGetEmbeddings(embed_ok) ==
    /\ warm = "scheduled"
    /\ IF embeddings_instance = 0
       THEN warm' = "build_embeddings" /\ embed_ok
       ELSE warm' = IF embed_ok THEN "done" ELSE "failed"
    /\ UNCHANGED <<API_KEY, req, running, singletonVars, collection,
                   amountVars, loaderVars>>

\* Line 26 on the worker thread, then embed_query("warmup").
WarmBuildEmbeddings(ok, embed_ok) ==
    /\ warm = "build_embeddings"
    /\ IF ok
       THEN /\ built' = [built EXCEPT !.emb = @ + 1]
            /\ embeddings_instance' = built.emb + 1
            /\ warm' = IF embed_ok THEN "done" ELSE "failed"
       ELSE /\ warm' = "failed"
            /\ embed_ok
            /\ UNCHANGED <<built, embeddings_instance>>
    /\ UNCHANGED <<API_KEY, req, running, qdrant_client_instance,
                   qdrant_vectorstore_instance, collection, amountVars, loaderVars>>

EmptyCollection == [exists |-> FALSE, points |-> <<>>]

ServiceIdle ==
    /\ API_KEY = [set |-> FALSE, chars |-> <<>>]
    /\ req = [r \in Requests |-> NewReq]
    /\ running = 0
    /\ warm = "done"
    /\ embeddings_instance = 0
    /\ qdrant_client_instance = 0
    /\ qdrant_vectorstore_instance = 0
    /\ built = NoneBuilt
    /\ collection = EmptyCollection

LoaderIdle == lc_in = NoFile /\ lc_out = NotLoaded

AmountIdle ==
    /\ retrieved_docs = <<>>
    /\ llm = NoLLM
    /\ ea_out = NotExtracted
    /\ gd_out = Pending

InitLoader ==
    /\ lc_in \in PdfFiles \cup DocxFiles \cup OtherFiles
    /\ lc_out = NotLoaded
    /\ AmountIdle
    /\ ServiceIdle

LoadAndChunk ==
    /\ lc_out.status = "pending"
    /\ lc_out' = load_and_chunk(lc_in)
    /\ UNCHANGED <<lc_in, amountVars, serviceVars>>

SpecLoader == InitLoader /\ [][LoadAndChunk]_vars

IsPdf == Lower(lc_in.ext) = ".pdf"

IsDocx == Lower(lc_in.ext) = ".docx"

DocxPagesCountUp ==
    \A i \in 1..Len(lc_out.chunks) : lc_out.chunks[i].page = PInt(i)

\* C8 as stated: DOCX chunk pages are 1..n in order; every PDF chunk page is a
\* positive integer or null, whatever page value the PDF loader attached.
C8_PdfPagesPositiveOrNull ==
    lc_out.status = "returned" =>
        /\ IsDocx => DocxPagesCountUp
        /\ IsPdf => \A i \in 1..Len(lc_out.chunks) :
               \/ lc_out.chunks[i].page.kind = "none"
               \/ (lc_out.chunks[i].page.kind = "int" /\ lc_out.chunks[i].page.n > 0)

\* C8 amended: DOCX chunk pages are 1..n in order; every PDF chunk page is an
\* integer (int() of the loader's page value, so 0 or less when the loader says
\* so) or null, never a string.
C8_PdfPagesIntOrNull ==
    lc_out.status = "returned" =>
        /\ IsDocx => DocxPagesCountUp
        /\ IsPdf => \A i \in 1..Len(lc_out.chunks) :
               lc_out.chunks[i].page.kind \in {"int", "none"}

\* A PDF whose chunks carry a page parsed from a string and a null page.
C8_Witness ==
    /\ lc_out.status = "returned"
    /\ IsPdf
    /\ Len(lc_in.pages) = 2
    /\ lc_in.pages[1].page = PStr(<<"2">>)
    /\ lc_in.pages[2].page = PStr(<<"?">>)
    /\ Len(lc_out.chunks) >= 2
    /\ lc_out.chunks[1].page = PInt(2)
    /\ lc_out.chunks[Len(lc_out.chunks)].page = PNone

----------------------------------------------------------------------------
(* Specifications of the functions of llm_reasoner.py *)

InitExtract ==
    /\ retrieved_docs \in SeqsUpTo(Texts, MaxDocs)
    /\ llm = NoLLM
    /\ ea_out = NotExtracted
    /\ gd_out = Pending
    /\ LoaderIdle
    /\ ServiceIdle

ExtractAmount ==
    /\ ~ea_out.done
    /\ ea_out' = [done |-> TRUE, value |-> extract_amount_from_clauses(retrieved_docs)]
    /\ UNCHANGED <<retrieved_docs, llm, gd_out, loaderVars, serviceVars>>

SpecExtract == InitExtract /\ [][ExtractAmount]_vars

InitDecision ==
    /\ llm \in LLMBehaviours
    /\ retrieved_docs \in (IF llm.fails = "search" THEN {<<>>}
                           ELSE SeqsUpTo(DecisionTexts, MaxDocs))
    /\ ea_out = NotExtracted
    /\ gd_out = Pending
    /\ LoaderIdle
    /\ ServiceIdle

GetDecision ==
    /\ gd_out.status = "pending"
    /\ gd_out' = get_decision(retrieved_docs, llm)
    /\ UNCHANGED <<retrieved_docs, llm, ea_out, loaderVars, serviceVars>>

SpecDecision == InitDecision /\ [][GetDecision]_vars

----------------------------------------------------------------------------
(* Properties of llm_reasoner.py *)

DocsWithMatch(docs) == {i \in 1..Len(docs) : ReSearch(docs[i]).found}

NotComma(c) == c # ","

\* The number a match denotes: the text after the currency symbol and the
\* optional space, commas removed.
MatchedNumber(t) ==
    LET m == ReSearch(t)
    IN  PyFloat(SelectSeq(SubSeq(t, m.num, m.to - 1), NotComma))

\* C2: extract_amount_from_clauses returns the numeric value of the first
\* currency match of the earliest retrieved text that contains one, currency
\* symbol and commas stripped, and null when no retrieved text contains a match.
C2_ReturnsFirstMatchedNumber ==
    ea_out.done =>
        LET hits == DocsWithMatch(retrieved_docs)
        IN  IF hits = {} THEN ea_out.value = None
            ELSE LET first == CHOOSE i \in hits : \A j \in hits : i <= j
                     n     == MatchedNumber(retrieved_docs[first])
                 IN  n.ok => ea_out.value = n.val

ParsedOutput == JsonLoads(CleanOutput(llm.text))

ParsedIsObject == ParsedOutput.ok /\ ParsedOutput.value.type = "object"

\* C4: when the text the LLM returned is not a JSON object (not JSON at all, or
\* JSON that is a list, a number, a string or null), get_decision returns an
\* empty mapping and raises nothing.
C4_MalformedOutputNeverRaises ==
    (gd_out.status # "pending" /\ llm.fails = "none" /\ ~ParsedIsObject)
        => gd_out = Returned(EmptyObj)

ParsedFields == ParsedOutput.value.fields

\* C10: for a parsed JSON object, a non-null amount is returned as it is and the
\* regex fallback is not applied; a null or absent amount is replaced by
\* extract_amount_from_clauses over the retrieved documents in retrieval order;
\* every other field is returned as parsed.
C10_TwoStageAmount ==
    (gd_out.status # "pending" /\ llm.fails = "none" /\ ParsedIsObject) =>
        /\ gd_out.status = "returned"
        /\ IF DictGet(ParsedFields, "amount") # JNull
           THEN gd_out.result = ParsedFields
           ELSE /\ DOMAIN gd_out.result = DOMAIN ParsedFields \cup {"amount"}
                /\ gd_out.result["amount"]
                       = FromAmount(extract_amount_from_clauses(retrieved_docs))
                /\ \A k \in DOMAIN ParsedFields \ {"amount"} :
                       gd_out.result[k] = ParsedFields[k]

\* The fallback has supplied an amount the LLM left out, from a second document.
C10_Witness ==
    /\ gd_out.status = "returned"
    /\ llm.fails = "none"
    /\ ParsedIsObject
    /\ "amount" \notin DOMAIN ParsedFields
    /\ Len(retrieved_docs) = 2
    /\ ~ReSearch(retrieved_docs[1]).found
    /\ gd_out.result["amount"].t = "number"

----------------------------------------------------------------------------
(* The service: hackrx_run calls, the warm-up thread, the singletons *)

\* After import: embedder's module body has tried get_qdrant_client() once,
\* startup_warmup has scheduled the warm-up task.
Init ==
    /\ API_KEY \in ApiKeys
    /\ req = [r \in Requests |-> NewReq]
    /\ running = 0
    /\ warm = "scheduled"
    /\ embeddings_instance = 0
    /\ qdrant_client_instance \in {0, 1}
    /\ qdrant_vectorstore_instance = 0
    /\ built = [NoneBuilt EXCEPT !.client = qdrant_client_instance]
    /\ collection = EmptyCollection
    /\ AmountIdle
    /\ LoaderIdle

Next ==
    \/ \E r \in Requests, h \in Headers, p \in Payloads4Run : HackrxRun(r, h, p)
    \/ \E r \in Requests, o \in DownloadOutcomes : Download(r, o)
    \/ \E r \in Requests, o \in TempOutcomes : WriteTemp(r, o)
    \/ \E r \in Requests : \E f \in DownloadedFiles(Suffix(req[r].documents)) :
           ChunkDocument(r, f)
    \/ \E r \in Requests : StoreChunksEnter(r)
    \/ \E r \in Requests : ReqGetEmbeddings(r)
    \/ \E r \in Requests, ok \in BOOLEAN : ReqBuildEmbeddings(r, ok)
    \/ \E r \in Requests, ok \in BOOLEAN : ReqGetClient(r, ok)
    \/ \E r \in Requests : ReqGetVectorstore(r)
    \/ \E r \in Requests, l \in BOOLEAN, c \in BOOLEAN : EnsureCollection(r, l, c)
    \/ \E r \in Requests, ok \in BOOLEAN, k \in 0..MaxChunks : AddTexts(r, ok, k)
    \/ \E r \in Requests, ok \in BOOLEAN, k \in 0..MaxChunks : FromTexts(r, ok, k)
    \/ \E r \in Requests : LoadQdrant(r)
    \/ \E r \in Requests, s \in BOOLEAN, l \in BOOLEAN : AnswerQuestion(r, s, l)
    \/ \E r \in Requests : Return(r)
    \/ \E r \in Requests : Close(r)
    \/ \E e \in BOOLEAN : WarmGetEmbeddings(e)
    \/ \E ok \in BOOLEAN, e \in BOOLEAN : WarmBuildEmbeddings(ok, e)

Spec == Init /\ [][Next]_vars

----------------------------------------------------------------------------
(* Properties of hackrx_run and the embedder *)

\* The header is "Bearer " followed by the configured key.
HeaderValid(h) ==
    /\ h.present
    /\ API_KEY.set
    /\ h.chars = BEARER \o API_KEY.chars

ProcessingVars == <<warm, singletonVars, collection>>

\* C1: a call whose Authorization header is missing, does not start with
\* "Bearer ", or carries another token than API_KEY ends with 401 whatever the
\* payload, and no processing step (download, temp file, chunking, upsert,
\* search, LLM call) has happened when it is rejected.
C1_RejectedBeforeProcessing ==
    [][\A r \in Requests :
          (req[r].pc = "new" /\ req'[r].pc # "new"
                /\ ~HeaderValid(req'[r].authorization))
            => /\ req'[r].pc = "done"
               /\ req'[r].status = 401
               /\ req'[r].did = {}
               /\ req'[r].tmp = "none"
               /\ UNCHANGED ProcessingVars]_vars

\* A call with the wrong token has been answered 401.
C1_Witness ==
    \E r \in Requests :
        /\ req[r].pc = "done"
        /\ req[r].authorization = Header(BEARER \o KeyTwo)
        /\ API_KEY.set
        /\ req[r].status = 401

\* C3: for an authenticated call every failure of the download (connection
\* error, timeout, non-success HTTP status) gives 400 and every failure of a
\* later step gives 500.
C3_DownloadFailureIs400 ==
    \A r \in Requests :
        (req[r].pc = "done" /\ req[r].stage \notin {"", "auth"}) =>
            /\ req[r].stage = "download" => req[r].status = 400
            /\ req[r].stage # "download" => req[r].status = 500

EmptyInputError == "ValueError: Chunks list is empty."

\* C5: store_chunks_qdrant entered with an empty chunk list fails with the
\* empty-input error, whatever the singletons and the collection are, and
\* leaves the singletons and the collection as they were.
C5_EmptyChunksRejectedFirst ==
    [][\A r \in Requests :
          (req[r].pc = "store" /\ req[r].nchunks = 0 /\ req'[r] # req[r])
            => /\ req'[r].pc = "done"
               /\ req'[r].exc = EmptyInputError
               /\ UNCHANGED <<singletonVars, collection>>]_vars

\* The empty list was rejected while no singleton but the client was cached.
C5_Witness ==
    \E r \in Requests :
        /\ req[r].pc = "done"
        /\ req[r].exc = EmptyInputError
        /\ embeddings_instance = 0
        /\ qdrant_vectorstore_instance = 0
        /\ ~collection.exists

\* C6: when a call in which a temp file was created has ended, the file no
\* longer exists, on every exit path.
C6_TempFileRemoved ==
    \A r \in Requests : req[r].pc = "done" => req[r].tmp # "exists"

\* C7: when the download, the ingestion and the searches of an authenticated
\* call succeed, the response is the list of answers with one entry per
\* question, entry i for question i, whatever each LLM call did.
C7_OneAnswerPerQuestion ==
    \A r \in Requests :
        /\ req[r].pc = "answer" =>
              /\ Len(req[r].answers) = req[r].qi
              /\ \A i \in 1..Len(req[r].answers) : req[r].answers[i].question = i
        /\ (req[r].pc = "done" /\ req[r].stage = "") =>
              /\ req[r].status = 200
              /\ Len(req[r].answers) = req[r].questions
              /\ \A i \in 1..req[r].questions : req[r].answers[i].question = i

\* The LLM call of the first question failed and the second was still answered.
C7_Witness ==
    \E r \in Requests :
        /\ req[r].pc = "done"
        /\ req[r].status = 200
        /\ req[r].questions = 2
        /\ ~req[r].answers[1].ok
        /\ req[r].answers[2].ok

\* C9: each of the three singletons is constructed at most once per process,
\* and every getter call returns that first instance (the instances are numbered
\* in the order of their construction), under any interleaving of the warm-up
\* thread and the calls.
C9_ConstructedAtMostOnce ==
    /\ built.emb <= 1 /\ embeddings_instance <= 1
    /\ built.client <= 1 /\ qdrant_client_instance <= 1
    /\ built.vs <= 1 /\ qdrant_vectorstore_instance <= 1

\* The entries of the collection that call r stored.
StoredBy(points, r) == Cardinality({j \in DOMAIN points : points[j][1] = r})

IsPrefix(s, t) == Len(s) <= Len(t) /\ SubSeq(t, 1, Len(s)) = s

\* C11: the collection is append-only under store_chunks_qdrant: no step
\* changes or removes an entry it holds, and when a call of store_chunks_qdrant
\* with a non-empty chunk list returns, that call has added exactly len(chunks)
\* entries, also when add_texts raised and from_texts was used.
C11_AppendsExactlyLenChunks ==
    [][/\ IsPrefix(collection.points, collection'.points)
       /\ \A r \in Requests :
             (req[r].pc # "load_qdrant" /\ req'[r].pc = "load_qdrant")
               => StoredBy(collection'.points, r) = req'[r].nchunks]_vars

====
